---- MODULE Spec2Model ----
(***************************************************************************)
(* Model of lib/core/EdisonMDNS.js: the mDNS discovery result pipeline     *)
(* (service cache, local-service detection, address ranking, query         *)
(* matching) and the discoverServices / stopDiscovering life cycle.        *)
(*                                                                         *)
(* JavaScript values that may be undefined are options: <<>> is undefined  *)
(* and <<v>> is the value v.  Address and name strings are TLA+ strings;   *)
(* Chars gives the UTF-16 code units of an address where the code looks   *)
(* inside the string (prefix matching, Array.prototype.sort).              *)
(***************************************************************************)
EXTENDS Integers, Sequences, FiniteSets, TLC

VARIABLES
  myaddresses,   \* exports.myaddresses: IPv4 addresses of this machine
  serviceCache,  \* exports.serviceCache: name -> set of addresses (its keys)
  browser,       \* exports.browser: <<>> (null) or <<closure>> of the browser
  orphans,       \* started browsers no longer referenced by exports.browser
  ev,            \* observation of the last operation (history variable)
  seen,          \* name -> addresses admitted to the pipeline since the name
                 \* was last removed from the cache (history variable)
  fresh,         \* names removed from the cache and not looked up since (history)
  notified,      \* <<name, suggestedAddress>> of the callbacks since the name
                 \* was last removed from the cache (history, SpecNotify)
  qm,            \* one application of serviceQueryFilter (SpecQuery)
  rk             \* one application of the address ranker (SpecRank)

vars == <<myaddresses, serviceCache, browser, orphans, ev, seen, fresh, qm, rk>>

-----------------------------------------------------------------------------
(* Bounds *)

MaxAddrs == 2
MaxOrphans == 1
MaxCandidates == 3
MaxLocals == 2

-----------------------------------------------------------------------------
(* Options and JavaScript truthiness *)

None == <<>>

Some(v) == <<v>>

Val(o) == o[1]

\* obj[o] with a string option o: undefined is coerced to the key "undefined"
Key(o) == IF o = None THEN "undefined" ELSE o[1]

\* a string is truthy unless it is undefined or ""
TruthyStr(o) == o # None /\ Val(o) # ""

\* a number is truthy unless it is undefined or 0
TruthyNum(o) == o # None /\ Val(o) # 0

\* an object or array (even an empty one) is truthy unless it is undefined
TruthyObj(o) == o # None

-----------------------------------------------------------------------------
(* Strings *)

LOCAL_ADDR == "127.0.0.1"

\* the addresses the model draws from
Addrs == {"10.0.0.1", "10.0.0.5", "10.0.1.9"}

\* the code units of every address string of the model ("." = 46, "0" = 48)
Chars ==
  [a \in Addrs \cup {LOCAL_ADDR, "10.0.0.6", "192.168.1.7"} |->
     CASE a = "10.0.0.1"    -> <<49, 48, 46, 48, 46, 48, 46, 49>>
       [] a = "10.0.0.5"    -> <<49, 48, 46, 48, 46, 48, 46, 53>>
       [] a = "10.0.0.6"    -> <<49, 48, 46, 48, 46, 48, 46, 54>>
       [] a = "10.0.1.9"    -> <<49, 48, 46, 48, 46, 49, 46, 57>>
       [] a = "127.0.0.1"   -> <<49, 50, 55, 46, 48, 46, 48, 46, 49>>
       [] a = "192.168.1.7" -> <<49, 57, 50, 46, 49, 54, 56, 46, 49, 46, 55>>]

Min(a, b) == IF a < b THEN a ELSE b

\* String comparison as Array.prototype.sort() does it: by code units
StrLess(a, b) ==
  LET s == Chars[a]
      t == Chars[b]
      n == Min(Len(s), Len(t))
      d == {i \in 1..n : s[i] # t[i]}
  IN  IF d = {} THEN Len(s) < Len(t)
      ELSE LET i == CHOOSE j \in d : \A k \in d : j <= k IN s[i] < t[i]

\* sequences over S without repetition, of length at most n
UniqueSeqs(S, n) ==
  {s \in UNION {[1..k -> S] : k \in 0..n} :
     \A i, j \in 1..Len(s) : i # j => s[i] # s[j]}

Range(s) == {s[i] : i \in 1..Len(s)}

-----------------------------------------------------------------------------
(* The service cache, a JavaScript object used as a map of maps *)

EmptyCache == [n \in {} |-> {}]

\* Object.keys(exports.serviceCache[name]), {} for a name with no entry
Cached(cache, name) == IF name \in DOMAIN cache THEN cache[name] ELSE {}

CachePut(cache, name, address) ==
  [n \in DOMAIN cache \cup {name} |->
     IF n = name THEN Cached(cache, name) \cup {address} ELSE cache[n]]

CacheDelete(cache, name) == [n \in DOMAIN cache \ {name} |-> cache[n]]

\* removeServiceFromCache emptying the cache instead of deleting one entry
removeServiceFromCacheAll(service, cache) ==
  IF ~TruthyStr(service.name) THEN cache ELSE EmptyCache

\* removeServiceFromCache without the delete of line 197
removeServiceFromCacheKept(service, cache) == cache

\* removeServiceFromCache(service)
removeServiceFromCache(service, cache) ==
  IF ~TruthyStr(service.name) THEN cache
  ELSE CacheDelete(cache, Key(service.name))

-----------------------------------------------------------------------------
(* Local-service detection and address ranking *)

\* serviceIsLocal(serviceAddresses): some address equals some local address
serviceIsLocal(serviceAddresses, my) ==
  IF serviceAddresses = {} THEN FALSE
  ELSE \E serviceAddress \in serviceAddresses :
         \E i \in 1..Len(my) : serviceAddress = my[i]

\* getMatchingPrefixLen(serviceAddress, myaddress)
getMatchingPrefixLen(serviceAddress, myaddress) ==
  LET s == Chars[serviceAddress]
      t == Chars[myaddress]
      n == Min(Len(s), Len(t))
      d == {i \in 1..n : s[i] # t[i]}
  IN  IF d = {} THEN n
      ELSE (CHOOSE j \in d : \A k \in d : j <= k) - 1

\* the keys of resultStore: every prefix length some (address, local) pair has
PrefixLengths(serviceAddresses, my) ==
  {getMatchingPrefixLen(serviceAddresses[i], my[j]) :
     i \in 1..Len(serviceAddresses), j \in 1..Len(my)}

RECURSIVE KeysOfGroup(_, _, _, _, _)
\* Object.keys(resultStore[len]): the addresses stored under len, in the
\* order of their first insertion (the order of serviceAddresses)
KeysOfGroup(serviceAddresses, my, len, i, acc) ==
  IF i > Len(serviceAddresses) THEN acc
  ELSE LET a == serviceAddresses[i]
           hit == /\ a \notin Range(acc)
                  /\ \E j \in 1..Len(my) : getMatchingPrefixLen(a, my[j]) = len
       IN  KeysOfGroup(serviceAddresses, my, len, i + 1,
                       IF hit THEN Append(acc, a) ELSE acc)

\* getAddressesWithLongestPrefixMatch with the lengths sorted in descending
\* order
getAddressesWithShortestPrefixMatch(serviceAddresses, my) ==
  LET allPrefixLengths == PrefixLengths(serviceAddresses, my)
  IN  IF allPrefixLengths = {} THEN <<>>
      ELSE LET shortest == CHOOSE n \in allPrefixLengths :
                             \A k \in allPrefixLengths : n <= k
           IN  KeysOfGroup(serviceAddresses, my, shortest, 1, <<>>)

\* getAddressesWithLongestPrefixMatch(serviceAddresses)
getAddressesWithLongestPrefixMatch(serviceAddresses, my) ==
  LET allPrefixLengths == PrefixLengths(serviceAddresses, my)
  IN  IF allPrefixLengths = {} THEN <<>>
      ELSE LET longest == CHOOSE n \in allPrefixLengths :
                            \A k \in allPrefixLengths : k <= n
           IN  KeysOfGroup(serviceAddresses, my, longest, 1, <<>>)

\* the ranker of serviceAddressFilter: the group of the longest prefix, then
\* Array.prototype.sort()
rank(candidateAddresses, my) ==
  SortSeq(getAddressesWithLongestPrefixMatch(candidateAddresses, my), StrLess)

-----------------------------------------------------------------------------
(* The address admission pipeline *)

RECURSIVE RecordAddressesNotStored(_, _, _, _, _)
\* RecordAddresses without the store of line 303
RecordAddressesNotStored(name, addresses, i, cache, notSeenBefore) ==
  IF i > Len(addresses) THEN [cache |-> cache, notSeenBefore |-> notSeenBefore]
  ELSE IF addresses[i] \notin Cached(cache, name)
       THEN RecordAddressesNotStored(name, addresses, i + 1, cache,
                                     Append(notSeenBefore, addresses[i]))
       ELSE RecordAddressesNotStored(name, addresses, i + 1, cache,
                                     notSeenBefore)

RECURSIVE RecordAddresses(_, _, _, _, _)
\* the forEach of serviceAddressFilter: every address not yet in the entry of
\* name is stored there and pushed on notSeenBefore
RecordAddresses(name, addresses, i, cache, notSeenBefore) ==
  IF i > Len(addresses) THEN [cache |-> cache, notSeenBefore |-> notSeenBefore]
  ELSE IF addresses[i] \notin Cached(cache, name)
       THEN RecordAddresses(name, addresses, i + 1,
                            CachePut(cache, name, addresses[i]),
                            Append(notSeenBefore, addresses[i]))
       ELSE RecordAddresses(name, addresses, i + 1, cache, notSeenBefore)

\* Malformed without the test of service.name
MalformedAddressesOnly(service) == ~TruthyObj(service.addresses)

\* the record is dropped when it has no addresses or no name
Malformed(service) == ~TruthyObj(service.addresses) \/ ~TruthyStr(service.name)

\* Admit with the single-address return placed before the test for a local
\* service
AdmitSingleFirst(name, cache, notSeenBefore, my) ==
  IF Len(notSeenBefore) = 0 THEN <<>>
  ELSE IF Len(notSeenBefore) = 1 THEN <<notSeenBefore[1]>>
  ELSE IF serviceIsLocal(Cached(cache, name), my) THEN <<LOCAL_ADDR>>
  ELSE rank(notSeenBefore, my)

\* Admit without the return of a single new address
AdmitNoShortcut(name, cache, notSeenBefore, my) ==
  IF Len(notSeenBefore) = 0 THEN <<>>
  ELSE IF serviceIsLocal(Cached(cache, name), my) THEN <<LOCAL_ADDR>>
  ELSE rank(notSeenBefore, my)

\* what serviceAddressFilter returns after its forEach left the cache and
\* notSeenBefore as given
Admit(name, cache, notSeenBefore, my) ==
  IF Len(notSeenBefore) = 0 THEN <<>>
  ELSE IF serviceIsLocal(Cached(cache, name), my) THEN <<LOCAL_ADDR>>
  ELSE IF Len(notSeenBefore) = 1 THEN <<notSeenBefore[1]>>
  ELSE rank(notSeenBefore, my)

\* serviceAddressFilter(service): the admitted addresses and the cache after
serviceAddressFilter(service, cache, my) ==
  IF Malformed(service)
  THEN [result |-> <<>>, cache |-> cache, notSeenBefore |-> <<>>]
  ELSE CHOOSE out \in
         {[result |-> Admit(Key(service.name), r.cache, r.notSeenBefore, my),
           cache |-> r.cache, notSeenBefore |-> r.notSeenBefore] :
            r \in {RecordAddresses(Key(service.name), Val(service.addresses),
                                   1, cache, <<>>)}} : TRUE

-----------------------------------------------------------------------------
(* Query matching *)

\* query.properties: a ServiceQuery keeps its fields in rawQuery and its
\* compiled pattern in nameRegEx; the object has no own field "properties"
OwnProperties(query) == None

\* query.nameRegEx.test(name): a pattern is the set of names it accepts
RegExTest(regex, name) == name \in regex

\* the some() over the keys of query.rawQuery.properties
SomePropertyFound(queryProps, recordProps) ==
  \E property \in DOMAIN queryProps :
     /\ property \in DOMAIN recordProps
     /\ recordProps[property] # ""
     /\ recordProps[property] = queryProps[property]

\* the last test of serviceQueryFilter: only a service.type query was issued
TypeOnlyQuery(query) ==
  /\ ~TruthyObj(query.nameRegEx)
  /\ ~TruthyNum(query.rawQuery.port)
  /\ ~TruthyObj(OwnProperties(query))

\* serviceQueryFilter(query, serviceRecord)
serviceQueryFilter(query, serviceRecord) ==
  IF /\ TruthyObj(query.nameRegEx)
     /\ TruthyStr(serviceRecord.name)
     /\ RegExTest(Val(query.nameRegEx), Val(serviceRecord.name))
  THEN TRUE
  ELSE IF /\ TruthyNum(query.rawQuery.port)
          /\ TruthyNum(serviceRecord.port)
          /\ Val(query.rawQuery.port) = Val(serviceRecord.port)
  THEN TRUE
  ELSE IF /\ TruthyObj(query.rawQuery.properties)
          /\ TruthyObj(serviceRecord.properties)
          /\ SomePropertyFound(Val(query.rawQuery.properties),
                               Val(serviceRecord.properties))
  THEN TRUE
  ELSE TypeOnlyQuery(query)

-----------------------------------------------------------------------------
(* The serviceUp handler registered by discoverServices *)

\* the call of callback without the try/catch around it
CallbackErrorUncaught(outcome) == outcome = "throws"

\* the try/catch around callback(...): does an error leave the statement?
CallbackErrorEscapes(outcome) == FALSE

\* the call of userServiceFilter stands outside any try: its error leaves
\* the handler
FilterErrorEscapes(outcome) == outcome = "throws"

\* the test of line 118 without its comparison
AdmittedAlways(filteredServiceAddresses) == TRUE

\* the test of line 118: is anything admitted?
AdmittedNonEmpty(filteredServiceAddresses) == Len(filteredServiceAddresses) # 0

\* filteredServiceAddresses[0], undefined for an empty list
First(filteredServiceAddresses) ==
  IF Len(filteredServiceAddresses) = 0 THEN None
  ELSE Some(filteredServiceAddresses[1])

\* the ServiceRecord the handler builds: setSuggestedAddresses and
\* setSuggestedAddress store what they are given
ServiceRecord(filteredServiceAddresses) ==
  [suggestedAddresses |-> filteredServiceAddresses,
   suggestedAddress |-> First(filteredServiceAddresses)]

\* serviceRecord.getSuggestedServiceSpec(): the condensed descriptor carries
\* the suggested addresses of the record
getSuggestedServiceSpec(serviceRecord) ==
  [suggestedAddresses |-> serviceRecord.suggestedAddresses,
   suggestedAddress |-> serviceRecord.suggestedAddress]

\* the part of the handler after serviceAddressFilter returned f
Deliver(c, f, filterOutcome, callbackOutcome) ==
  LET filter == IF AdmittedNonEmpty(f.result) /\ c.hasFilter
                THEN filterOutcome ELSE "none"
      callback == IF AdmittedNonEmpty(f.result) /\ filter \in {"none", "true"}
                  THEN callbackOutcome ELSE "none"
  IN  [cache |-> f.cache, matched |-> TRUE, admitted |-> f.result,
       notSeenBefore |-> f.notSeenBefore, filter |-> filter,
       callback |-> callback,
       descriptor |-> IF callback = "none" THEN None
                      ELSE Some(getSuggestedServiceSpec(ServiceRecord(f.result))),
       escaped |-> \/ FilterErrorEscapes(filter)
                   \/ CallbackErrorEscapes(callback)]

\* The handler of 'serviceUp' for a browser with closure c.  filterOutcome and
\* callbackOutcome are what the application's functions do if they are called.
serviceUpHandler(c, service, cache, my, filterOutcome, callbackOutcome) ==
  IF ~serviceQueryFilter(c.query, service)
  THEN [cache |-> cache, matched |-> FALSE, admitted |-> <<>>,
        notSeenBefore |-> <<>>, filter |-> "none", callback |-> "none",
        descriptor |-> None, escaped |-> FALSE]
  ELSE CHOOSE h \in
         {Deliver(c, f, filterOutcome, callbackOutcome) :
            f \in {serviceAddressFilter(service, cache, my)}} : TRUE

-----------------------------------------------------------------------------
(* Inputs *)

Names == {"svcA", "svcB"}

\* the addresses field of a raw record: undefined, or a list made unique by
\* the resolver sequence (mdns.rst.makeAddressesUnique)
AddressLists == {None} \cup {Some(l) : l \in UniqueSeqs(Addrs, MaxAddrs)}

\* raw service records as the browser delivers them: svcA with every address
\* list, svcB with one address, records without a name, records without
\* addresses, and a record on another port
Services ==
  [name : {Some("svcA")},
   addresses : AddressLists \ {None},
   port : {Some(8080)},
   properties : {None}]
  \cup
  [name : {None, Some(""), Some("svcB")},
   addresses : {None, Some(<<"10.0.0.5">>)},
   port : {Some(8080)},
   properties : {None}]
  \cup
  [name : {Some("svcA")},
   addresses : {None},
   port : {Some(8080)},
   properties : {None}]
  \cup
  [name : {Some("svcA")},
   addresses : {Some(<<"10.0.0.5">>)},
   port : {Some(9090)},
   properties : {None}]

\* the query of the life-cycle model: records on port 8080 match it
PortQuery ==
  [nameRegEx |-> None, rawQuery |-> [port |-> Some(8080), properties |-> None]]

\* what a browser's handlers close over
Closures == [query : {PortQuery}, hasFilter : BOOLEAN]

\* the browsers that are started and not stopped
Running == Range(browser) \cup orphans

\* does the record carry what the pipeline works on: a name and an address
\* list?
Named(service) == TruthyStr(service.name) /\ service.addresses # None

NoEvent ==
  [op |-> "init", ctor |-> "none", name |-> None, nAddresses |-> 0,
   matched |-> FALSE, lacking |-> FALSE, admitted |-> <<>>,
   notSeenBefore |-> <<>>, filter |-> "none", callback |-> "none",
   descriptor |-> None, escaped |-> FALSE, raised |-> FALSE,
   repeat |-> FALSE, wasFresh |-> FALSE]

-----------------------------------------------------------------------------
(* Operations *)

\* what setMyAddresses() may find: no interface with an IPv4 address, an
\* interface on the network of the services, an interface on another network
LocalAddressLists == {<<>>, <<"10.0.0.1">>, <<"192.168.1.7">>}

\* setMyAddresses() in the constructor, then the module's initial values
Init ==
  /\ myaddresses \in LocalAddressLists
  /\ serviceCache = EmptyCache
  /\ browser = None
  /\ orphans = {}
  /\ ev = NoEvent
  /\ seen = EmptyCache
  /\ fresh = {}
  /\ notified = {}
  /\ qm = None
  /\ rk = None

\* the constructor names of the objects passed as serviceQuery
Constructors == {"ServiceQuery", "Object"}

\* the validation without its test
AcceptsAny(ctor) == TRUE

\* the validation that opens discoverServices: is serviceQuery accepted?
Accepts(ctor) == ctor = "ServiceQuery"

\* discoverServices(serviceQuery, userServiceFilter, callback): unless the
\* argument is refused, a new browser is created and started and
\* exports.browser refers to it; a browser it referred to before keeps running
discoverServices(ctor, c) ==
  IF ~Accepts(ctor)
  THEN /\ ev' = [NoEvent EXCEPT !.op = "discoverServices", !.ctor = ctor,
                                !.raised = TRUE]
       /\ UNCHANGED <<myaddresses, serviceCache, browser, orphans, seen,
                      fresh, qm, rk>>
  ELSE /\ Cardinality(orphans \cup Range(browser)) <= MaxOrphans
       /\ orphans' = orphans \cup Range(browser)
       /\ browser' = Some(c)
       /\ ev' = [NoEvent EXCEPT !.op = "discoverServices", !.ctor = ctor]
       /\ UNCHANGED <<myaddresses, serviceCache, seen, fresh, qm, rk>>

\* stopDiscovering()
stopDiscovering ==
  /\ IF browser # None
     THEN /\ serviceCache' = EmptyCache
          /\ browser' = None
          /\ fresh' = fresh \cup DOMAIN serviceCache
          /\ seen' = EmptyCache
     ELSE UNCHANGED <<serviceCache, browser, fresh, seen>>
  /\ ev' = [NoEvent EXCEPT !.op = "stopDiscovering"]
  /\ UNCHANGED <<myaddresses, orphans, qm, rk>>

RECURSIVE PutAll(_, _, _, _)
\* the addresses of one pipeline run added to the history of its name
PutAll(history, name, addresses, i) ==
  IF i > Len(addresses) THEN history
  ELSE PutAll([n \in DOMAIN history \cup {name} |->
                 IF n = name THEN Cached(history, name) \cup {addresses[i]}
                 ELSE history[n]],
              name, addresses, i + 1)

\* what the application's functions may do when the handler calls them
FilterOutcomes(c, service, cache, my) ==
  IF serviceUpHandler(c, service, cache, my, "true", "returns").filter = "none"
  THEN {"true"} ELSE {"true", "false", "throws"}

CallbackOutcomes(c, service, cache, my, filterOutcome) ==
  IF serviceUpHandler(c, service, cache, my, filterOutcome, "returns").callback
       = "none"
  THEN {"returns"} ELSE {"returns", "throws"}

\* a running browser emits 'serviceUp'
serviceUp(c, service, filterOutcome, callbackOutcome) ==
  /\ \E h \in {serviceUpHandler(c, service, serviceCache, myaddresses,
                                filterOutcome, callbackOutcome)} :
     LET ran == h.matched /\ Named(service)
         name == Val(service.name)
         addresses == Val(service.addresses)
     IN  /\ serviceCache' = h.cache
         /\ ev' = [NoEvent EXCEPT
                   !.op = "serviceUp",
                   !.matched = h.matched,
                   !.lacking = ~Named(service),
                   !.name = IF Named(service) THEN service.name ELSE None,
                   !.nAddresses = IF Named(service) THEN Len(addresses) ELSE 0,
                   !.admitted = h.admitted,
                   !.notSeenBefore = h.notSeenBefore,
                   !.filter = h.filter,
                   !.callback = h.callback,
                   !.descriptor = h.descriptor,
                   !.escaped = h.escaped,
                   !.repeat = /\ ran /\ addresses # <<>>
                              /\ Range(addresses) \subseteq Cached(seen, name),
                   !.wasFresh = ran /\ addresses # <<>> /\ name \in fresh]
         /\ seen' = IF ran THEN PutAll(seen, name, addresses, 1) ELSE seen
         /\ fresh' = IF ran /\ addresses # <<>> THEN fresh \ {name} ELSE fresh
  /\ UNCHANGED <<myaddresses, browser, orphans, qm, rk>>

\* a running browser emits 'serviceDown'
serviceDown(service) ==
  /\ serviceCache' = removeServiceFromCache(service, serviceCache)
  /\ ev' = [NoEvent EXCEPT !.op = "serviceDown", !.name = service.name]
  /\ seen' = IF TruthyStr(service.name)
             THEN [n \in DOMAIN seen \ {Val(service.name)} |-> seen[n]]
             ELSE seen
  /\ fresh' = IF TruthyStr(service.name)
              THEN fresh \cup ({Val(service.name)} \cap DOMAIN serviceCache)
              ELSE fresh
  /\ UNCHANGED <<myaddresses, browser, orphans, qm, rk>>

\* a running browser emits 'serviceChanged': the handler does nothing
serviceChanged(service) ==
  /\ ev' = [NoEvent EXCEPT !.op = "serviceChanged", !.name = service.name]
  /\ UNCHANGED <<myaddresses, serviceCache, browser, orphans, seen, fresh, qm,
                 rk>>

Next ==
  \/ \E ctor \in Constructors, c \in Closures :
       discoverServices(ctor, c) /\ UNCHANGED notified
  \/ stopDiscovering /\ UNCHANGED notified
  \/ \E c \in Running, service \in Services :
       \E filterOutcome \in FilterOutcomes(c, service, serviceCache, myaddresses) :
         \E callbackOutcome \in CallbackOutcomes(c, service, serviceCache,
                                                 myaddresses, filterOutcome) :
           /\ serviceUp(c, service, filterOutcome, callbackOutcome)
           /\ UNCHANGED notified
  \/ \E c \in Running, name \in {None, Some(""), Some("svcA"), Some("svcB")} :
       serviceDown([name |-> name]) /\ UNCHANGED notified
  \/ \E c \in Running, name \in {None, Some("svcA"), Some("svcB")} :
       serviceChanged([name |-> name]) /\ UNCHANGED notified

Spec == Init /\ [][Next]_vars

-----------------------------------------------------------------------------
(* The life cycle with the history of the callbacks *)

\* the history of the callbacks after an operation: a callback adds its name
\* and suggestedAddress, the removal of a name drops the pairs of that name,
\* stopDiscovering drops them all
Notified ==
  notified' =
    CASE ev'.op = "serviceUp" /\ ev'.callback # "none" ->
           notified \cup {<<Val(ev'.name),
                             Val(Val(ev'.descriptor).suggestedAddress)>>}
      [] ev'.op = "serviceDown" /\ TruthyStr(ev'.name) ->
           {p \in notified : p[1] # Val(ev'.name)}
      [] ev'.op = "stopDiscovering" -> {}
      [] OTHER -> notified

NextNotify ==
  \/ \E ctor \in Constructors, c \in Closures :
       discoverServices(ctor, c) /\ Notified
  \/ stopDiscovering /\ Notified
  \/ \E c \in Running, service \in Services :
       \E filterOutcome \in FilterOutcomes(c, service, serviceCache, myaddresses) :
         \E callbackOutcome \in CallbackOutcomes(c, service, serviceCache,
                                                 myaddresses, filterOutcome) :
           /\ serviceUp(c, service, filterOutcome, callbackOutcome)
           /\ Notified
  \/ \E c \in Running, name \in {None, Some(""), Some("svcA"), Some("svcB")} :
       serviceDown([name |-> name]) /\ Notified
  \/ \E c \in Running, name \in {None, Some("svcA"), Some("svcB")} :
       serviceChanged([name |-> name]) /\ Notified

SpecNotify == Init /\ [][NextNotify]_vars

-----------------------------------------------------------------------------
(* The query matcher applied to one query and one record *)

PropertyKeys == {"role", "unit"}

PropertyValues == {"", "sensor", "actuator"}

\* the property maps of queries and of TXT records
PropertyMaps == UNION {[D -> PropertyValues] : D \in SUBSET PropertyKeys}

\* the ServiceQuery objects: a name pattern, a port and properties, each
\* optional
Queries ==
  [nameRegEx : {None, Some({"svcA"}), Some({"svcA", "svcB"})},
   rawQuery : [port : {None, Some(8080), Some(9090)},
               properties : {None} \cup {Some(m) : m \in PropertyMaps}]]

\* the raw records the matcher is applied to
Records ==
  [name : {None, Some("svcA"), Some("svcB")},
   addresses : {Some(<<"10.0.0.5">>)},
   port : {None, Some(8080), Some(9090)},
   properties : {None} \cup {Some(m) : m \in PropertyMaps}]

\* a query and a record are given, the matcher has not been called
InitQuery ==
  /\ myaddresses = <<>>
  /\ serviceCache = EmptyCache
  /\ browser = None
  /\ orphans = {}
  /\ ev = NoEvent
  /\ seen = EmptyCache
  /\ fresh = {}
  /\ notified = {}
  /\ rk = None
  /\ \E query \in Queries, serviceRecord \in Records :
       qm = Some([query |-> query, record |-> serviceRecord, result |-> None])

\* serviceQueryFilter(query, serviceRecord) is called
Match ==
  /\ Val(qm).result = None
  /\ qm' = Some([Val(qm) EXCEPT
                 !.result = Some(serviceQueryFilter(Val(qm).query,
                                                    Val(qm).record))])
  /\ UNCHANGED <<myaddresses, serviceCache, browser, orphans, ev, seen, fresh,
                 notified, rk>>

NextQuery == Match

SpecQuery == InitQuery /\ [][NextQuery]_vars

-----------------------------------------------------------------------------
(* The address ranker applied to one candidate list and one local list *)

\* the addresses a candidate list is drawn from
RankAddrs == Addrs \cup {"10.0.0.6"}

\* the new addresses of one record: not empty, no address twice
CandidateLists == UniqueSeqs(RankAddrs, MaxCandidates) \ {<<>>}

\* the local addresses of a machine with at most MaxLocals interfaces
RankLocalLists == UniqueSeqs({"10.0.0.1", "10.0.1.9", "192.168.1.7"}, MaxLocals)

\* candidates and local addresses are given, the ranker has not been called
InitRank ==
  /\ myaddresses = <<>>
  /\ serviceCache = EmptyCache
  /\ browser = None
  /\ orphans = {}
  /\ ev = NoEvent
  /\ seen = EmptyCache
  /\ fresh = {}
  /\ notified = {}
  /\ qm = None
  /\ \E candidates \in CandidateLists, locals \in RankLocalLists :
       rk = Some([candidates |-> candidates, locals |-> locals,
                  result |-> None])

\* the ranker is called
Rank ==
  /\ Val(rk).result = None
  /\ rk' = Some([Val(rk) EXCEPT
                 !.result = Some(rank(Val(rk).candidates, Val(rk).locals))])
  /\ UNCHANGED <<myaddresses, serviceCache, browser, orphans, ev, seen, fresh,
                 notified, qm>>

NextRank == Rank

SpecRank == InitRank /\ [][NextRank]_vars

-----------------------------------------------------------------------------
(* Claims *)

\* the last operation was a serviceUp whose record went through the address
\* admission pipeline
PipelineRan == ev.op = "serviceUp" /\ ev.matched /\ ~ev.lacking

\* C1: a pipeline run whose addresses all went through the pipeline before
\* for the same name, with no removal of the name from the cache since (in
\* particular the rerun of an identical record), admits nothing and calls
\* neither the user filter nor the application callback.
DuplicateSuppression ==
  (PipelineRan /\ ev.repeat) =>
    /\ ev.admitted = <<>>
    /\ ev.filter = "none"
    /\ ev.callback = "none"

\* a record of two addresses was run again
DuplicateSuppressionWitness ==
  PipelineRan /\ ev.repeat /\ ev.nAddresses = 2

\* C2 as stated: every pipeline run on a name whose cached set holds a local
\* address admits exactly [LOCAL_ADDR].
LocalityPrecedenceEveryRun ==
  (PipelineRan /\ serviceIsLocal(Cached(serviceCache, Val(ev.name)), myaddresses))
    => ev.admitted = <<LOCAL_ADDR>>

\* C2 amended: every pipeline run that finds at least one new address, on a
\* name whose cached set holds a local address, admits exactly [LOCAL_ADDR].
LocalityPrecedence ==
  (/\ PipelineRan
   /\ Len(ev.notSeenBefore) > 0
   /\ serviceIsLocal(Cached(serviceCache, Val(ev.name)), myaddresses))
    => ev.admitted = <<LOCAL_ADDR>>

\* a run with a new remote address on a name cached with a local address and
\* other addresses
LocalityPrecedenceWitness ==
  /\ PipelineRan
  /\ Len(ev.notSeenBefore) > 0
  /\ \A i \in 1..Len(ev.notSeenBefore) :
       ~serviceIsLocal({ev.notSeenBefore[i]}, myaddresses)
  /\ serviceIsLocal(Cached(serviceCache, Val(ev.name)), myaddresses)
  /\ Cardinality(Cached(serviceCache, Val(ev.name))) = 3

\* C3: a name removed from the cache by serviceDown or by the reset of
\* stopDiscovering has no entry until its next serviceUp, and that serviceUp
\* finds every address of its record new.
CacheLifecycle ==
  /\ \A n \in fresh : n \notin DOMAIN serviceCache
  /\ (PipelineRan /\ ev.wasFresh) => Len(ev.notSeenBefore) = ev.nAddresses

\* the serviceUp after a removal brought two addresses, both new
CacheLifecycleWitness ==
  PipelineRan /\ ev.wasFresh /\ Len(ev.notSeenBefore) = 2

\* C4 as stated: stopDiscovering never raises and the cache is empty when it
\* returns.
StopLeavesCacheEmpty ==
  ev.op = "stopDiscovering" => (~ev.raised /\ serviceCache = EmptyCache)

\* C5: a callback that throws does not let its error leave the handler, and
\* the program state after the event is the one a callback that returns
\* leaves: the same browsers and the same cache.
CallbackFailureSwallowed ==
  [][(ev'.op = "serviceUp" /\ ev'.callback = "throws") =>
       /\ ~ev'.escaped
       /\ browser' = browser
       /\ orphans' = orphans
       /\ \E c \in Running, service \in Services :
            \E filterOutcome \in {"true", "false", "throws"} :
              \E h \in {serviceUpHandler(c, service, serviceCache, myaddresses,
                                         filterOutcome, "returns")} :
                /\ h.callback = "returns"
                /\ h.filter = ev'.filter
                /\ h.admitted = ev'.admitted
                /\ h.notSeenBefore = ev'.notSeenBefore
                /\ ~h.escaped
                /\ serviceCache' = h.cache]_vars

\* the callback threw on an event that admitted addresses
CallbackFailureSwallowedWitness ==
  ev.op = "serviceUp" /\ ev.callback = "throws" /\ Len(ev.admitted) > 0

\* C6 as stated: an error of the user filter does not leave the handler.
FilterFailureSwallowed ==
  (ev.op = "serviceUp" /\ ev.filter = "throws") => ~ev.escaped

\* C7: a record without a name or without addresses is dropped: nothing is
\* admitted, neither the user filter nor the callback is called, no error
\* leaves the handler and the cache is as it was.
MalformedRecordDropped ==
  [][(ev'.op = "serviceUp" /\ ev'.lacking) =>
       /\ ev'.admitted = <<>>
       /\ ev'.filter = "none"
       /\ ev'.callback = "none"
       /\ ~ev'.escaped
       /\ serviceCache' = serviceCache]_vars

\* a matching record without name or addresses arrived while names were cached
MalformedRecordDroppedWitness ==
  /\ ev.op = "serviceUp" /\ ev.lacking /\ ev.matched
  /\ DOMAIN serviceCache = Names

\* C8: discoverServices with an argument that is no ServiceQuery raises and
\* leaves the browser handle, the running browsers and the cache as they were.
InvalidArgumentRejected ==
  [][(ev'.op = "discoverServices" /\ ev'.ctor # "ServiceQuery") =>
       /\ ev'.raised
       /\ browser' = browser
       /\ orphans' = orphans
       /\ serviceCache' = serviceCache]_vars

\* the call was refused while a browser was running and names were cached
InvalidArgumentRejectedWitness ==
  /\ ev.op = "discoverServices" /\ ev.ctor = "Object" /\ ev.raised
  /\ browser # None
  /\ serviceCache # EmptyCache

\* what the claims about the matcher call "specified" and "matches"
NameMatches(query, record) ==
  /\ query.nameRegEx # None
  /\ record.name # None
  /\ Val(record.name) \in Val(query.nameRegEx)

PortMatches(query, record) ==
  /\ query.rawQuery.port # None
  /\ record.port # None
  /\ Val(query.rawQuery.port) = Val(record.port)

PropertiesMatch(query, record) ==
  /\ query.rawQuery.properties # None
  /\ record.properties # None
  /\ \E k \in DOMAIN Val(query.rawQuery.properties) :
       /\ k \in DOMAIN Val(record.properties)
       /\ Val(record.properties)[k] = Val(query.rawQuery.properties)[k]

NothingSpecified(query) ==
  /\ query.nameRegEx = None
  /\ query.rawQuery.port = None
  /\ query.rawQuery.properties = None

SomethingMatches(query, record) ==
  \/ NameMatches(query, record)
  \/ PortMatches(query, record)
  \/ PropertiesMatch(query, record)

\* C9 as stated: a query that specifies a name pattern, a port or properties
\* rejects every record none of whose fields match what it specifies.
RejectsOnNoMatch ==
  (/\ qm # None
   /\ Val(qm).result # None
   /\ ~NothingSpecified(Val(qm).query)
   /\ ~SomethingMatches(Val(qm).query, Val(qm).record))
    => Val(qm).result = Some(FALSE)

\* C10 as stated: a query accepts every record one of whose fields matches a
\* field it specifies, and a query that specifies nothing accepts every record.
AcceptsByOr ==
  (/\ qm # None
   /\ Val(qm).result # None
   /\ \/ SomethingMatches(Val(qm).query, Val(qm).record)
      \/ NothingSpecified(Val(qm).query))
    => Val(qm).result = Some(TRUE)

PipelineBeforeQuery ==
  ev.op = "serviceUp" =>
    /\ (ev.name # None /\ ev.nAddresses > 0) =>
         /\ Val(ev.name) \in DOMAIN serviceCache
         /\ Cardinality(serviceCache[Val(ev.name)]) >= ev.nAddresses
    /\ ev.filter # "none" => (ev.matched /\ ev.admitted # <<>>)
    /\ ev.callback # "none" =>
         (ev.matched /\ ev.admitted # <<>> /\ ev.filter \in {"none", "true"})

\* the length of the common leading run of characters of two addresses
CommonPrefixLen(a, b) ==
  LET s == Chars[a]
      t == Chars[b]
  IN  CHOOSE k \in 0..Min(Len(s), Len(t)) :
        /\ \A i \in 1..k : s[i] = t[i]
        /\ k < Min(Len(s), Len(t)) => s[k + 1] # t[k + 1]

\* lexicographic order of two different addresses
LexBefore(a, b) ==
  LET s == Chars[a]
      t == Chars[b]
  IN  \E k \in 0..Min(Len(s), Len(t)) :
        /\ \A i \in 1..k : s[i] = t[i]
        /\ IF k = Len(s) THEN k < Len(t)
           ELSE k < Len(t) /\ s[k + 1] < t[k + 1]

\* the candidates whose common prefix with some local address is as long as
\* the longest over all pairs
TopGroup(candidates, locals) ==
  LET lens == {CommonPrefixLen(candidates[i], locals[j]) :
                 i \in 1..Len(candidates), j \in 1..Len(locals)}
  IN  {candidates[i] : i \in
         {i \in 1..Len(candidates) :
            \E j \in 1..Len(locals) :
              \A n \in lens : n <= CommonPrefixLen(candidates[i], locals[j])}}

\* the sequence holds each address of S once, in lexicographic order
SortedListOf(r, S) ==
  /\ Range(r) = S
  /\ \A i, j \in 1..Len(r) : i < j => LexBefore(r[i], r[j])

RankerWithoutLocals ==
  (rk # None /\ Val(rk).result # None /\ Val(rk).locals = <<>>) =>
    SortedListOf(Val(Val(rk).result), Range(Val(rk).candidates))

\* C15 as stated: every pipeline run that finds exactly one new address
\* admits the one-element list of that address.
SingleNewAddressEveryRun ==
  (PipelineRan /\ Len(ev.notSeenBefore) = 1) => ev.admitted = ev.notSeenBefore

\* C15 amended: every pipeline run that finds exactly one new address, on a
\* name none of whose cached addresses is local, admits the one-element list
\* of that address.
SingleNewAddress ==
  (/\ PipelineRan
   /\ Len(ev.notSeenBefore) = 1
   /\ ~serviceIsLocal(Cached(serviceCache, Val(ev.name)), myaddresses))
    => ev.admitted = ev.notSeenBefore

\* a record of two addresses, one of them new, on a machine with a local
\* address that the service does not have
SingleNewAddressWitness ==
  /\ PipelineRan
  /\ Len(ev.notSeenBefore) = 1
  /\ ev.nAddresses = 2
  /\ myaddresses = <<"10.0.0.1">>
  /\ ~serviceIsLocal(Cached(serviceCache, Val(ev.name)), myaddresses)
  /\ ev.admitted = ev.notSeenBefore

\* C16: serviceDown changes the cache only by removing the entry of the
\* record's name: the entries of all other names are as they were, a record
\* whose name is absent or empty leaves the whole cache as it was and raises
\* no error, and neither the user filter nor the callback is called.
ServiceDownFrame ==
  [][ev'.op = "serviceDown" =>
       /\ ~ev'.raised
       /\ ~ev'.escaped
       /\ ev'.filter = "none"
       /\ ev'.callback = "none"
       /\ IF ev'.name \in {None, Some("")}
          THEN serviceCache' = serviceCache
          ELSE /\ DOMAIN serviceCache' = DOMAIN serviceCache \ {Val(ev'.name)}
               /\ \A n \in DOMAIN serviceCache' :
                    serviceCache'[n] = serviceCache[n]]_vars

\* svcA went down and the entry of svcB is still there
ServiceDownFrameWitness ==
  /\ ev.op = "serviceDown" /\ ev.name = Some("svcA")
  /\ "svcA" \in fresh
  /\ DOMAIN serviceCache = {"svcB"}

\* C17 as stated: when stopDiscovering has returned no browser started by an
\* earlier discoverServices is running, so that no serviceUp is processed
\* between a stopDiscovering and the next discoverServices, that is, while
\* exports.browser is null.
StopStopsEveryBrowser ==
  /\ ev.op = "stopDiscovering" => Running = {}
  /\ ev.op = "serviceUp" => browser # None

\* C18 as stated: for every local address list, a pipeline run that finds at
\* least one new address admits a non-empty list, so that the callback is
\* called unless the user filter refuses the record.
NoSilentLoss ==
  (PipelineRan /\ Len(ev.notSeenBefore) > 0) =>
    /\ ev.admitted # <<>>
    /\ ev.filter \in {"none", "true"} => ev.callback # "none"

\* C19 as stated: between two removals of a name from the cache the callback
\* is never called twice for that name with the same suggestedAddress.
NoDuplicateNotification ==
  [][(ev'.op = "serviceUp" /\ ev'.callback # "none") =>
       <<Val(ev'.name), Head(ev'.admitted)>> \notin notified]_vars

\* C20 as stated: every address that a serviceUp inserts in the cache entry of
\* a name whose service is not local is in the admitted result of that
\* serviceUp.
CachedImpliesReported ==
  [][(/\ ev'.op = "serviceUp"
      /\ ev'.name # None
      /\ ~serviceIsLocal(Cached(serviceCache', Val(ev'.name)), myaddresses))
       => (Cached(serviceCache', Val(ev'.name))
             \ Cached(serviceCache, Val(ev'.name)))
            \subseteq Range(ev'.admitted)]_vars

====
